---- MODULE Spec2Model ----
(***************************************************************************)
(* Model of the text reader of src/main.py: the main loop that polls three *)
(* debounced buttons, the capture / extraction hand-off, and the reader    *)
(* threads started by read_text_threaded, which render and play one        *)
(* sentence at a time and share the flags of the global AppState object.   *)
(*                                                                         *)
(* Threads interleave at every access to shared state.  Times are in       *)
(* milliseconds.  A player process is "running" from Popen until it exits  *)
(* by itself ("exited") or is sent terminate() ("terminated").             *)
(* quick_feedback only prints and plays a feedback sound of its own; it    *)
(* reads and writes none of the state below and is left out.               *)
(***************************************************************************)
EXTENDS Integers, Sequences, FiniteSets, TLC

\* ---------------------------------------------------------------- bounds
MaxUnits == 2       \* longest extracted text, in sentences
MaxWorkers == 2     \* reader threads started over a run
MaxPlayers == 3     \* render / play attempts over a run
MaxTicks == 2       \* clock advances over a run
MaxTicksOne == 1    \* clock advances over a run of a single session
MaxPresses == 3     \* button presses accepted over a run
MaxKills == 1       \* process kills (each followed by a restart) over a run
T0 == 1000          \* clock reading when main() starts
MaxLen == 4         \* longest response of the extraction, in characters

\* ------------------------------------------------------ program constants
CAPTURE_BUTTON == 17
PAUSE_BUTTON == 22
STOP_BUTTON == 27
DEBOUNCE_TIME == 300        \* 0.3 s
SESSION_LIMIT == 600000     \* 600 s
JOIN_TIMEOUT == 2000        \* 2 s
POLL_INTERVAL == 100        \* 0.1 s
PRESS_GAP == 50             \* the main loop's sleep(0.05)

Pins == {CAPTURE_BUTTON, PAUSE_BUTTON, STOP_BUTTON}
NoEvent == 0
None == 0
Workers == 1..MaxWorkers

VARIABLES
    is_reading, is_paused, stop_reading,  \* AppState flags
    current_process,                      \* AppState.current_process: a player index or None
    reading_thread,                       \* AppState.reading_thread: a worker or None
    start_time,                           \* AppState.start_time
    last_button_press,                    \* pin -> time of the last accepted press
    now,                                  \* time.time()
    mpc,                                  \* position of the main thread
    text,                                 \* the text main hands to read_text_threaded
    join_deadline,                        \* when the pending join(timeout=2) gives up
    wpc, wtext, idx, sentences,           \* per worker: position, its text, loop index i, sentence list
    players,                              \* history of the render / play attempts:
                                          \* [owner, unit, status], "running" .. "failed"
    events,                               \* history: what has happened so far
    lastPoll,                             \* history: the main-loop tick being handled
    presses, ticks                        \* history: accepted presses, clock advances

vars == <<is_reading, is_paused, stop_reading, current_process, reading_thread,
          start_time, last_button_press, now, mpc, text, join_deadline,
          wpc, wtext, idx, sentences, players, events, lastPoll, presses, ticks>>

appVars == <<is_reading, is_paused, stop_reading, current_process, reading_thread, start_time>>
mainVars == <<last_button_press, mpc, text, join_deadline, lastPoll, presses>>
workerVars == <<wpc, wtext, idx, sentences>>

\* ------------------------------------------------------------ segmentation
\* text.split('.')
RECURSIVE SplitDot(_, _)
SplitDot(s, cur) ==
    IF s = <<>> THEN <<cur>>
    ELSE IF Head(s) = "." THEN <<cur>> \o SplitDot(Tail(s), <<>>)
    ELSE SplitDot(Tail(s), Append(cur, Head(s)))

\* s.strip(), whitespace being the blank
RECURSIVE LStrip(_)
LStrip(s) == IF s # <<>> /\ Head(s) = " " THEN LStrip(Tail(s)) ELSE s

RECURSIVE RStrip(_)
RStrip(s) ==
    IF s # <<>> /\ s[Len(s)] = " " THEN RStrip(SubSeq(s, 1, Len(s) - 1)) ELSE s

Strip(s) == LStrip(RStrip(s))

\* [s.strip() + '.' for s in text.split('.') if s.strip()]
RECURSIVE KeepUnits_All(_)
KeepUnits_All(parts) ==
    IF parts = <<>> THEN <<>>
    ELSE <<Append(Strip(Head(parts)), ".")>> \o KeepUnits_All(Tail(parts))

RECURSIVE KeepUnits(_)
KeepUnits(parts) ==
    IF parts = <<>> THEN <<>>
    ELSE IF Strip(Head(parts)) # <<>>
         THEN <<Append(Strip(Head(parts)), ".")>> \o KeepUnits(Tail(parts))
         ELSE KeepUnits(Tail(parts))

Segment(t) == KeepUnits(SplitDot(t, <<>>))

\* The texts the extraction returns in this model: n sentences "a." each, and
\* "." for a text with no sentence at all (extracted_text is never empty).
RECURSIVE TextOf(_)
TextOf(n) == IF n = 0 THEN <<".">> ELSE <<"a", ".">> \o (IF n = 1 THEN <<>> ELSE TextOf(n - 1))

ExtractedTexts == {TextOf(n) : n \in 0..MaxUnits}

\* response.text.replace("*", "").strip()
RECURSIVE RemoveStars(_)
RemoveStars(s) ==
    IF s = <<>> THEN <<>>
    ELSE IF Head(s) = "*" THEN RemoveStars(Tail(s))
    ELSE <<Head(s)>> \o RemoveStars(Tail(s))

Clean(r) == Strip(RemoveStars(r))

\* The responses of the extraction service, character by character.
Chars == {"a", "b", " ", ".", "*"}
Responses == UNION {[1..n -> Chars] : n \in 0..MaxLen}

\* ------------------------------------------------------------- the buttons
\* (current_time - last_button_press[pin]) > DEBOUNCE_TIME
Debounced_AtLeast(t, last) == (t - last) >= DEBOUNCE_TIME
Debounced(t, last) == (t - last) > DEBOUNCE_TIME

\* button_pressed(pin), `held` being the pins that read GPIO.LOW
button_pressed(pin, held) == Debounced(now, last_button_press[pin]) /\ pin \in held

\* The if / elif chain of the main loop: the pin whose handler runs this tick.
Dispatch_StopFirst(held) ==
    IF button_pressed(STOP_BUTTON, held) THEN STOP_BUTTON
    ELSE IF button_pressed(PAUSE_BUTTON, held) THEN PAUSE_BUTTON
    ELSE IF button_pressed(CAPTURE_BUTTON, held) THEN CAPTURE_BUTTON
    ELSE NoEvent

Dispatch(held) ==
    IF button_pressed(CAPTURE_BUTTON, held) THEN CAPTURE_BUTTON
    ELSE IF button_pressed(PAUSE_BUTTON, held) THEN PAUSE_BUTTON
    ELSE IF button_pressed(STOP_BUTTON, held) THEN STOP_BUTTON
    ELSE NoEvent

\* ------------------------------------------------------------- the players
Running(p) == p # None /\ players[p].status = "running"
LivePlayers == {p \in 1..Len(players) : players[p].status = "running"}

\* Popen.terminate()
Terminate_Noop(ps, p) == ps
Terminate(ps, p) == IF p # None /\ ps[p].status = "running"
                    THEN [ps EXCEPT ![p].status = "terminated"]
                    ELSE ps

\* is_alive()
Alive(w) == w # None /\ wpc[w] \notin {"idle", "done", "dead", "killed"}
Started == {w \in Workers : wpc[w] # "idle"}
InProcess == {w \in Started : wpc[w] # "killed"}

\* A worker that has not yet left its for loop.
Narrating(w) == wpc[w] \in {"start2", "start3", "loop", "render", "play", "monitor",
                            "tick", "pause_wait", "resume"}

\* ---------------------------------------------------------------- history
Ev(tag, a, b) == [tag |-> tag, a |-> a, b |-> b]
Happened(tag) == \E e \in events : e.tag = tag
NoPoll == [ready |-> {}, event |-> NoEvent]
PlayedBy(w) == SelectSeq(players, LAMBDA r : r.owner = w)
StartedBy(w) == SelectSeq(players, LAMBDA r : r.owner = w /\ r.status # "failed")
\* The unit whose player worker w has running, 0 if none.
PlayingUnit(w) ==
    IF \E p \in LivePlayers : players[p].owner = w
    THEN players[CHOOSE p \in LivePlayers : players[p].owner = w].unit
    ELSE 0

\* ------------------------------------------------------------------- Init
Init ==
    /\ is_reading = FALSE
    /\ is_paused = FALSE
    /\ stop_reading = FALSE
    /\ current_process = None
    /\ reading_thread = None
    /\ start_time = None
    /\ last_button_press = [p \in Pins |-> 0]
    /\ now = T0
    /\ mpc = "poll"
    /\ text = <<>>
    /\ join_deadline = 0
    /\ wpc = [w \in Workers |-> "idle"]
    /\ wtext = [w \in Workers |-> <<>>]
    /\ idx = [w \in Workers |-> 0]
    /\ sentences = [w \in Workers |-> <<>>]
    /\ players = <<>>
    /\ events = {}
    /\ lastPoll = NoPoll
    /\ presses = 0
    /\ ticks = 0

\* ------------------------------------------------------- the main thread
\* Where the main thread reads the pins: button_pressed is called at the top
\* of the loop only, never from inside a handler.
Polls_WhileBusy(pc) == pc \in {"poll", "capture", "extract"}
Polls(pc) == pc = "poll"

\* The calls of the extraction service made so far for the capture accepted
\* as press number a.
Calls(a) == Cardinality({e \in events : e.tag \in {"extractFailed", "extractOk"} /\ e.a = a})

\* main: `if image_path:` -- without a file main goes back to polling
OnCaptureFailure_Proceed == "extract"
OnCaptureFailure == "poll"

\* process_image_fast: an exception, a missing response or an empty text ends
\* the call
OnExtractFailure_Retry == "extract"
OnExtractFailure == "poll"

\* One tick of `while True` in main(): the buttons are polled in the order of
\* the if / elif chain and the handler of the first accepted one is entered.
\* With `rec` the tick is also written to the history.
MainPoll(held, rec) ==
    /\ Polls(mpc)
    /\ LET ev == Dispatch(held)
           ready == {p \in Pins : button_pressed(p, held)}
       IN
        /\ ev # NoEvent => presses < MaxPresses
        /\ presses' = IF ev = NoEvent THEN presses ELSE presses + 1
        /\ last_button_press' = IF ev = NoEvent THEN last_button_press
                                ELSE [last_button_press EXCEPT ![ev] = now]
        /\ lastPoll' = IF rec /\ ev # NoEvent THEN [ready |-> ready, event |-> ev]
                       ELSE NoPoll
        /\ mpc' = IF ev = CAPTURE_BUTTON THEN "capture"
                  ELSE IF ev = PAUSE_BUTTON THEN "pause"
                  ELSE IF ev = STOP_BUTTON THEN "stop"
                  ELSE "poll"
        /\ events' = IF rec /\ ev # NoEvent THEN events \cup {Ev("accept", ev, now)}
                     ELSE events
    /\ UNCHANGED <<appVars, now, text, join_deadline, workerVars, players, ticks>>

\* handle_pause_button: the test of is_reading ...
HandlePause ==
    /\ mpc = "pause"
    /\ mpc' = IF is_reading THEN "pause_toggle" ELSE "poll"
    /\ lastPoll' = IF is_reading THEN lastPoll ELSE NoPoll
    /\ UNCHANGED <<appVars, last_button_press, now, text, join_deadline, presses,
                   workerVars, players, events, ticks>>

\* ... and the assignment is_paused = not is_paused
PauseToggle ==
    /\ mpc = "pause_toggle"
    /\ is_paused' = ~is_paused
    /\ mpc' = "poll"
    /\ lastPoll' = NoPoll
    /\ events' = IF is_paused THEN events
                 ELSE IF \E w \in Workers : PlayingUnit(w) # 0
                 THEN events \cup {Ev("pausedAt", PlayingUnit(w), w) :
                                      w \in {v \in Workers : PlayingUnit(v) # 0}}
                 ELSE events \cup {Ev("pausedIdle", 0, 0)}
    /\ UNCHANGED <<is_reading, stop_reading, current_process, reading_thread, start_time,
                   last_button_press, now, text, join_deadline, presses, workerVars,
                   players, ticks>>

\* handle_stop_button: the test of is_reading ...
HandleStop ==
    /\ mpc = "stop"
    /\ mpc' = IF is_reading THEN "stop_set" ELSE "poll"
    /\ lastPoll' = IF is_reading THEN lastPoll ELSE NoPoll
    /\ UNCHANGED <<appVars, last_button_press, now, text, join_deadline, presses,
                   workerVars, players, events, ticks>>

\* ... and the assignment stop_reading = True
StopSet ==
    /\ mpc = "stop_set"
    /\ stop_reading' = TRUE
    /\ mpc' = "poll"
    /\ lastPoll' = NoPoll
    /\ events' = events
         \cup {Ev("cancel", w, 0) : w \in {v \in Workers : Narrating(v)}}
         \cup {Ev("stopAt", PlayingUnit(w), w) : w \in {v \in Workers : PlayingUnit(v) # 0}}
    /\ UNCHANGED <<is_reading, is_paused, current_process, reading_thread, start_time,
                   last_button_press, now, text, join_deadline, presses, workerVars,
                   players, ticks>>

\* handle_capture_button: capture_image_fast returns a file name or None.
\* With `rec` a failure is written to the history.
CaptureImage(rec) ==
    /\ mpc = "capture"
    /\ \E ok \in BOOLEAN :
        /\ mpc' = IF ok THEN "extract" ELSE OnCaptureFailure
        /\ lastPoll' = IF ok THEN lastPoll ELSE NoPoll
        /\ events' = IF rec /\ ~ok THEN events \cup {Ev("captureFailed", presses, 0)}
                     ELSE events
    /\ UNCHANGED <<appVars, last_button_press, now, text, join_deadline, presses,
                   workerVars, players, ticks>>

Capture == CaptureImage(FALSE)

\* process_image_fast: the request fails or yields no text, and main goes back
\* to polling ...
ExtractFails(rec) ==
    /\ mpc = "extract"
    /\ mpc' = OnExtractFailure
    /\ lastPoll' = NoPoll
    /\ events' = IF rec THEN events \cup {Ev("extractFailed", presses, Calls(presses) + 1)}
                 ELSE events
    /\ UNCHANGED <<appVars, last_button_press, now, text, join_deadline, presses,
                   workerVars, players, ticks>>

ExtractNothing == ExtractFails(FALSE)

\* ... or it yields a text, which is passed to read_text_threaded.  At most
\* `sessions` reader threads are started in one process.
ExtractYields(sessions, rec) ==
    /\ mpc = "extract"
    /\ Cardinality(Started) < MaxWorkers
    /\ Cardinality(InProcess) < sessions
    /\ \E t \in ExtractedTexts : text' = t
    /\ mpc' = "rtt_check"
    /\ events' = IF rec THEN events \cup {Ev("extractOk", presses, Calls(presses) + 1)}
                 ELSE events
    /\ UNCHANGED <<appVars, last_button_press, now, join_deadline, lastPoll, presses,
                   workerVars, players, ticks>>

ExtractText(sessions) == ExtractYields(sessions, FALSE)

\* ... the text being any response, cleaned, that is not empty.
ExtractResponse ==
    /\ mpc = "extract"
    /\ Cardinality(InProcess) < 1
    /\ \E r \in Responses :
        /\ Clean(r) # <<>>
        /\ text' = Clean(r)
    /\ mpc' = "rtt_check"
    /\ UNCHANGED <<appVars, last_button_press, now, join_deadline, lastPoll, presses,
                   workerVars, players, events, ticks>>

\* read_text_threaded: if state.reading_thread and state.reading_thread.is_alive()
RttCheck ==
    /\ mpc = "rtt_check"
    /\ mpc' = IF Alive(reading_thread) THEN "rtt_stop" ELSE "rtt_start"
    /\ UNCHANGED <<appVars, last_button_press, now, text, join_deadline, lastPoll, presses,
                   workerVars, players, events, ticks>>

\* state.stop_reading = True, and the join begins
RttStop ==
    /\ mpc = "rtt_stop"
    /\ stop_reading' = TRUE
    /\ join_deadline' = now + JOIN_TIMEOUT
    /\ mpc' = "rtt_join"
    /\ events' = events \cup {Ev("cancel", w, 0) : w \in {v \in {reading_thread} : Narrating(v)}}
    /\ UNCHANGED <<is_reading, is_paused, current_process, reading_thread, start_time,
                   last_button_press, now, text, lastPoll, presses, workerVars, players,
                   ticks>>

\* state.reading_thread.join(timeout=2) returns: the thread ended or 2 s passed
JoinReturns_NoTimeout(th, t, deadline) == ~Alive(th)
JoinReturns(th, t, deadline) == ~Alive(th) \/ t >= deadline

RttJoin ==
    /\ mpc = "rtt_join"
    /\ JoinReturns(reading_thread, now, join_deadline)
    /\ mpc' = "rtt_start"
    /\ join_deadline' = 0
    /\ UNCHANGED <<appVars, last_button_press, now, text, lastPoll, presses, workerVars,
                   players, events, ticks>>

\* state.reading_thread = threading.Thread(target=read_worker); start()
NewWorker == Cardinality(Started) + 1

RttStart ==
    /\ mpc = "rtt_start"
    /\ NewWorker \in Workers
    /\ reading_thread' = NewWorker
    /\ wpc' = [wpc EXCEPT ![NewWorker] = "start"]
    /\ wtext' = [wtext EXCEPT ![NewWorker] = text]
    /\ text' = <<>>
    /\ mpc' = "poll"
    /\ lastPoll' = NoPoll
    /\ UNCHANGED <<is_reading, is_paused, stop_reading, current_process, start_time,
                   last_button_press, now, join_deadline, presses, idx, sentences,
                   players, events, ticks>>

\* The handlers and read_text_threaded, without the poll and the extraction.
Handlers ==
    \/ HandlePause
    \/ PauseToggle
    \/ HandleStop
    \/ StopSet
    \/ Capture
    \/ ExtractNothing
    \/ RttCheck
    \/ RttStart

\* read_text_threaded finding the previous thread alive.
Replace ==
    \/ RttStop
    \/ RttJoin

\* ----------------------------------------------------- the reader thread
\* time.time() - state.start_time > 600
Expired_Never(t, since) == FALSE
Expired(t, since) == (t - since) > SESSION_LIMIT

\* enumerate(sentences): the index worker w begins with, and the index after i
StartIndex_Checkpoint(w) ==
    LET saved == {e \in events : e.tag = "kill" /\ e.a # 0 /\ e.b >= 1 /\ wtext[e.a] = wtext[w]}
    IN IF saved = {} THEN 0 ELSE (CHOOSE e \in saved : TRUE).b - 1
StartIndex(w) == 0
NextIndex_Skip(i) == i + 2
NextIndex(i) == i + 1

\* `continue` after a failed create_audio_file / play_audio_file: back to the
\* head of the for loop
OnFailure_Abort == "reset"
OnFailure == "loop"

\* The unit (1-based) worker w is at.
Unit(w) == idx[w] + 1

\* A history entry for an attempt of worker w at its current unit.
Attempt(w, st) == [owner |-> w, unit |-> Unit(w), status |-> st]

\* state.is_reading = True
WStart(w) ==
    /\ wpc[w] = "start"
    /\ is_reading' = TRUE
    /\ wpc' = [wpc EXCEPT ![w] = "start2"]
    /\ UNCHANGED <<is_paused, stop_reading, current_process, reading_thread, start_time,
                   mainVars, now, wtext, idx, sentences, players, events, ticks>>

\* state.stop_reading = False
WClearStop(w) ==
    /\ wpc[w] = "start2"
    /\ stop_reading' = FALSE
    /\ wpc' = [wpc EXCEPT ![w] = "start3"]
    /\ UNCHANGED <<is_reading, is_paused, current_process, reading_thread, start_time,
                   mainVars, now, wtext, idx, sentences, players, events, ticks>>

\* state.start_time = time.time(); sentences = [...]; the for loop begins
WClock(w) ==
    /\ wpc[w] = "start3"
    /\ start_time' = now
    /\ sentences' = [sentences EXCEPT ![w] = Segment(wtext[w])]
    /\ idx' = [idx EXCEPT ![w] = StartIndex(w)]
    /\ wpc' = [wpc EXCEPT ![w] = "loop"]
    /\ UNCHANGED <<is_reading, is_paused, stop_reading, current_process, reading_thread,
                   mainVars, now, wtext, players, events, ticks>>

\* The head of the for loop: the list is exhausted, the 10-minute limit has
\* passed or stop_reading is set (all three leave the loop), or the sentence
\* goes on to be rendered.
WLoop(w) ==
    /\ wpc[w] = "loop"
    /\ LET more == idx[w] < Len(sentences[w])
           late == more /\ Expired(now, start_time)
       IN /\ wpc' = [wpc EXCEPT ![w] = IF more /\ ~late /\ ~stop_reading
                                       THEN "render" ELSE "reset"]
          /\ events' = IF late THEN events \cup {Ev("budget", w, 0)} ELSE events
    /\ UNCHANGED <<appVars, mainVars, now, wtext, idx, sentences, players, ticks>>

\* create_audio_file(sentence) returns True ...
WRender(w) ==
    /\ wpc[w] = "render"
    /\ wpc' = [wpc EXCEPT ![w] = "play"]
    /\ UNCHANGED <<appVars, mainVars, now, wtext, idx, sentences, players, events, ticks>>

\* ... or False, and the loop continues with the next sentence
WRenderFails(w) ==
    /\ wpc[w] = "render"
    /\ Len(players) < MaxPlayers
    /\ players' = Append(players, Attempt(w, "failed"))
    /\ idx' = [idx EXCEPT ![w] = NextIndex(idx[w])]
    /\ wpc' = [wpc EXCEPT ![w] = OnFailure]
    /\ UNCHANGED <<appVars, mainVars, now, wtext, sentences, events, ticks>>

\* state.current_process = play_audio_file() is a player ...
WPlay(w) ==
    /\ wpc[w] = "play"
    /\ Len(players) < MaxPlayers
    /\ players' = Append(players, Attempt(w, "running"))
    /\ current_process' = Len(players) + 1
    /\ wpc' = [wpc EXCEPT ![w] = "monitor"]
    /\ UNCHANGED <<is_reading, is_paused, stop_reading, reading_thread, start_time,
                   mainVars, now, wtext, idx, sentences, events, ticks>>

\* ... or None, and the loop continues with the next sentence
WPlayFails(w) ==
    /\ wpc[w] = "play"
    /\ Len(players) < MaxPlayers
    /\ players' = Append(players, Attempt(w, "failed"))
    /\ current_process' = None
    /\ idx' = [idx EXCEPT ![w] = NextIndex(idx[w])]
    /\ wpc' = [wpc EXCEPT ![w] = OnFailure]
    /\ UNCHANGED <<is_reading, is_paused, stop_reading, reading_thread, start_time,
                   mainVars, now, wtext, sentences, events, ticks>>

\* while state.current_process and state.current_process.poll() is None;
\* when it is false the sentence is over (os.remove, next i)
WMonitor(w) ==
    /\ wpc[w] = "monitor"
    /\ IF Running(current_process)
       THEN /\ wpc' = [wpc EXCEPT ![w] = "tick"]
            /\ UNCHANGED idx
       ELSE /\ wpc' = [wpc EXCEPT ![w] = "loop"]
            /\ idx' = [idx EXCEPT ![w] = NextIndex(idx[w])]
    /\ UNCHANGED <<appVars, mainVars, now, wtext, sentences, players, events, ticks>>

\* The loop body: sleep(0.1), then stop_reading (terminate and break) and
\* is_paused (terminate and wait).  state.current_process is read again for
\* terminate(); None there raises AttributeError, which ends the thread.
WTick(w) ==
    /\ wpc[w] = "tick"
    /\ IF stop_reading \/ is_paused
       THEN IF current_process = None
            THEN /\ wpc' = [wpc EXCEPT ![w] = "dead"]
                 /\ UNCHANGED <<idx, players>>
            ELSE /\ players' = Terminate(players, current_process)
                 /\ IF stop_reading
                    THEN /\ wpc' = [wpc EXCEPT ![w] = "loop"]
                         /\ idx' = [idx EXCEPT ![w] = NextIndex(idx[w])]
                    ELSE /\ wpc' = [wpc EXCEPT ![w] = "pause_wait"]
                         /\ UNCHANGED idx
       ELSE /\ wpc' = [wpc EXCEPT ![w] = "monitor"]
            /\ UNCHANGED <<idx, players>>
    /\ UNCHANGED <<appVars, mainVars, now, wtext, sentences, events, ticks>>

\* while state.is_paused and not state.stop_reading: sleep(0.1) -- the exit
WPauseWait(w) ==
    /\ wpc[w] = "pause_wait"
    /\ ~(is_paused /\ ~stop_reading)
    /\ wpc' = [wpc EXCEPT ![w] = "resume"]
    /\ UNCHANGED <<appVars, mainVars, now, wtext, idx, sentences, players, events, ticks>>

\* The pause wait and the replay (lines 140-149) do not assign start_time:
\* the session clock after a pause is the session clock before it.
ClockAfterPause_Restart(t, since) == t
ClockAfterPause(t, since) == since

\* if not state.stop_reading: state.current_process = play_audio_file() ...
WResume(w) ==
    /\ wpc[w] = "resume"
    /\ IF stop_reading
       THEN UNCHANGED <<current_process, players>>
       ELSE /\ Len(players) < MaxPlayers
            /\ players' = Append(players, Attempt(w, "running"))
            /\ current_process' = Len(players) + 1
    /\ start_time' = ClockAfterPause(now, start_time)
    /\ wpc' = [wpc EXCEPT ![w] = "monitor"]
    /\ UNCHANGED <<is_reading, is_paused, stop_reading, reading_thread,
                   mainVars, now, wtext, idx, sentences, events, ticks>>

\* ... and if that is None: break
WResumeFails(w) ==
    /\ wpc[w] = "resume"
    /\ ~stop_reading
    /\ Len(players) < MaxPlayers
    /\ players' = Append(players, Attempt(w, "resume_failed"))
    /\ current_process' = None
    /\ idx' = [idx EXCEPT ![w] = NextIndex(idx[w])]
    /\ wpc' = [wpc EXCEPT ![w] = "loop"]
    /\ UNCHANGED <<is_reading, is_paused, stop_reading, reading_thread, start_time,
                   mainVars, now, wtext, sentences, events, ticks>>

\* reset_reading_state, statement by statement: self.is_reading = False
WReset(w) ==
    /\ wpc[w] = "reset"
    /\ is_reading' = FALSE
    /\ wpc' = [wpc EXCEPT ![w] = "reset2"]
    /\ UNCHANGED <<is_paused, stop_reading, current_process, reading_thread, start_time,
                   mainVars, now, wtext, idx, sentences, players, events, ticks>>

\* self.is_paused = False; self.stop_reading = False
WResetFlags(w) ==
    /\ wpc[w] = "reset2"
    /\ is_paused' = FALSE
    /\ stop_reading' = FALSE
    /\ wpc' = [wpc EXCEPT ![w] = "reset4"]
    /\ UNCHANGED <<is_reading, current_process, reading_thread, start_time,
                   mainVars, now, wtext, idx, sentences, players, events, ticks>>

\* if self.current_process: terminate() and wait(timeout=2)
WResetTerminate(w) ==
    /\ wpc[w] = "reset4"
    /\ players' = Terminate(players, current_process)
    /\ wpc' = [wpc EXCEPT ![w] = IF current_process = None THEN "done" ELSE "reset5"]
    /\ UNCHANGED <<appVars, mainVars, now, wtext, idx, sentences, events, ticks>>

\* self.current_process = None; the thread ends
WResetProcess(w) ==
    /\ wpc[w] = "reset5"
    /\ current_process' = None
    /\ wpc' = [wpc EXCEPT ![w] = "done"]
    /\ UNCHANGED <<is_reading, is_paused, stop_reading, reading_thread, start_time,
                   mainVars, now, wtext, idx, sentences, players, events, ticks>>

Worker(w) ==
    \/ WStart(w)
    \/ WClearStop(w)
    \/ WClock(w)
    \/ WLoop(w)
    \/ WRender(w)
    \/ WRenderFails(w)
    \/ WPlay(w)
    \/ WPlayFails(w)
    \/ WMonitor(w)
    \/ WTick(w)
    \/ WPauseWait(w)
    \/ WResume(w)
    \/ WResumeFails(w)
    \/ WReset(w)
    \/ WResetFlags(w)
    \/ WResetTerminate(w)
    \/ WResetProcess(w)

\* ------------------------------------------------------- the environment
\* A player reaches the end of its file.
PlayerExit(p) ==
    /\ players[p].status = "running"
    /\ players' = [players EXCEPT ![p].status = "exited"]
    /\ UNCHANGED <<appVars, mainVars, now, workerVars, events, ticks>>

\* Stop is pressed and released while the main thread is inside
\* handle_capture_button or process_image_fast.  The pins are read by
\* button_pressed only, so nothing of the program's state changes; the press
\* is written to the history, with the number of the capture it falls into.
StopWhileBusy ==
    /\ mpc \in {"capture", "extract"}
    /\ Ev("stopWhileBusy", presses, 0) \notin events
    /\ events' = events \cup {Ev("stopWhileBusy", presses, 0)}
    /\ UNCHANGED <<appVars, mainVars, now, workerVars, players, ticks>>

\* Time passes.
Tick(d, limit) ==
    /\ ticks < limit
    /\ now' = now + d
    /\ ticks' = ticks + 1
    /\ UNCHANGED <<appVars, mainVars, workerVars, players, events>>

\* The process is killed and started again: its threads are gone and the
\* module-level state is built anew.  The players are processes of their own.
Kill ==
    /\ Cardinality({e \in events : e.tag = "kill"}) < MaxKills
    /\ Cardinality(Started) < MaxWorkers
    /\ events' = events \cup
         {Ev("kill", w, PlayingUnit(w)) : w \in {v \in Workers : Narrating(v)}}
         \cup {Ev("kill", 0, 0)}
    /\ is_reading' = FALSE
    /\ is_paused' = FALSE
    /\ stop_reading' = FALSE
    /\ current_process' = None
    /\ reading_thread' = None
    /\ start_time' = None
    /\ last_button_press' = [p \in Pins |-> 0]
    /\ mpc' = "poll"
    /\ text' = <<>>
    /\ join_deadline' = 0
    /\ lastPoll' = NoPoll
    /\ wpc' = [w \in Workers |-> IF wpc[w] = "idle" THEN "idle" ELSE "killed"]
    /\ UNCHANGED <<now, wtext, idx, sentences, players, presses, ticks>>

\* ---------------------------------------------------------- specifications
\* The whole program: any number of sessions, one replacing the other.
Next ==
    \/ \E held \in SUBSET Pins : MainPoll(held, FALSE)
    \/ Handlers
    \/ Replace
    \/ ExtractText(MaxWorkers)
    \/ \E w \in Workers : Worker(w)
    \/ \E p \in 1..Len(players) : PlayerExit(p)
    \/ Tick(JOIN_TIMEOUT, MaxTicks)

Spec == Init /\ [][Next]_vars

\* The steps of the main thread.
MainStep ==
    \/ \E held \in SUBSET Pins : MainPoll(held, FALSE)
    \/ Handlers
    \/ Replace
    \/ ExtractText(MaxWorkers)

\* What a reader thread does with players that play on and on and with no
\* failure: it leaves a unit only when told to stop.
Narrate(w) ==
    \/ WStart(w)
    \/ WClearStop(w)
    \/ WClock(w)
    \/ WLoop(w)
    \/ WRender(w)
    \/ WPlay(w)
    \/ WMonitor(w)
    \/ WTick(w)
    \/ WPauseWait(w)
    \/ WResume(w)
    \/ WReset(w)
    \/ WResetFlags(w)
    \/ WResetTerminate(w)
    \/ WResetProcess(w)

\* Sessions replacing one another while the audio lasts, the main thread
\* scheduled fairly; nothing is assumed of the reader threads, which may stay
\* where they are for any length of time.
NextPolling ==
    \/ MainStep
    \/ \E w \in Workers : Narrate(w)
    \/ Tick(JOIN_TIMEOUT, MaxTicks)

SpecPolling == Init /\ [][NextPolling]_vars

FairMain == SpecPolling /\ WF_vars(MainStep)

\* One session: the extraction yields a text once.
NextOne ==
    \/ \E held \in SUBSET Pins : MainPoll(held, FALSE)
    \/ Handlers
    \/ ExtractText(1)
    \/ \E w \in Workers : Worker(w)
    \/ \E p \in 1..Len(players) : PlayerExit(p)
    \/ Tick(JOIN_TIMEOUT, MaxTicksOne)

SpecOne == Init /\ [][NextOne]_vars

\* One session, its threads scheduled fairly.
FairOne == SpecOne /\ \A w \in Workers : WF_vars(Worker(w))

\* One session and a clock that runs past the 10-minute limit.
NextBudget ==
    \/ \E held \in SUBSET Pins : MainPoll(held, FALSE)
    \/ Handlers
    \/ ExtractText(1)
    \/ \E w \in Workers : Worker(w)
    \/ \E p \in 1..Len(players) : PlayerExit(p)
    \/ \E d \in {POLL_INTERVAL, SESSION_LIMIT} : Tick(d, MaxTicks)

SpecBudget == Init /\ [][NextBudget]_vars

\* One session per process, and the process killed and started again.
NextRestart ==
    \/ \E held \in SUBSET Pins : MainPoll(held, FALSE)
    \/ Handlers
    \/ ExtractText(1)
    \/ \E w \in Workers : Worker(w)
    \/ \E p \in 1..Len(players) : PlayerExit(p)
    \/ Tick(JOIN_TIMEOUT, MaxTicksOne)
    \/ Kill

SpecRestart == Init /\ [][NextRestart]_vars

\* The main loop alone, the extraction never yielding a text, on a fine clock.
NextButtons ==
    \/ \E held \in SUBSET Pins : MainPoll(held, TRUE)
    \/ HandlePause
    \/ HandleStop
    \/ Capture
    \/ ExtractNothing
    \/ \E d \in {PRESS_GAP, DEBOUNCE_TIME} : Tick(d, MaxTicks)

SpecButtons == Init /\ [][NextButtons]_vars

\* One capture of an arbitrary page, up to the segmentation of its text.
NextSegment ==
    \/ \E held \in SUBSET {CAPTURE_BUTTON} : MainPoll(held, FALSE)
    \/ Capture
    \/ ExtractNothing
    \/ ExtractResponse
    \/ RttCheck
    \/ RttStart
    \/ \E w \in Workers : WStart(w) \/ WClearStop(w) \/ WClock(w)

SpecSegment == Init /\ [][NextSegment]_vars

\* The capture attempts: the main loop, a capture and its extraction written
\* to the history, and one session up to the start of its for loop.
NextAttempt ==
    \/ \E held \in SUBSET Pins : MainPoll(held, FALSE)
    \/ HandlePause
    \/ PauseToggle
    \/ HandleStop
    \/ StopSet
    \/ CaptureImage(TRUE)
    \/ ExtractFails(TRUE)
    \/ ExtractYields(1, TRUE)
    \/ RttCheck
    \/ RttStart
    \/ StopWhileBusy
    \/ \E w \in Workers : WStart(w) \/ WClearStop(w) \/ WClock(w)
    \/ Tick(JOIN_TIMEOUT, MaxTicks)

SpecAttempt == Init /\ [][NextAttempt]_vars

\* ------------------------------------------------------------------ claims
NoPress(pin) == last_button_press[pin] = 0
NoFailure == \A p \in 1..Len(players) : players[p].status \notin {"failed", "resume_failed"}
UnitsOf(log) == [k \in 1..Len(log) |-> log[k].unit]
UnitCount(w) == Len(Segment(wtext[w]))

\* A single session that nothing disturbs: no Pause, no Stop, no failed render
\* or player start, no expiry of the 10-minute limit.
Undisturbed ==
    /\ Cardinality(Started) = 1
    /\ NoPress(PAUSE_BUTTON)
    /\ NoPress(STOP_BUTTON)
    /\ NoFailure
    /\ ~Happened("budget")
    /\ ~Happened("kill")

\* C1: in an undisturbed single session over a text of N units the worker
\* starts the players of units 1, 2, ..., N in that order, each once, and when
\* it has ended is_reading, is_paused and stop_reading are False and
\* current_process is None.
C1_InOrderOnce ==
    \A w \in Workers :
        (Undisturbed /\ wpc[w] # "idle") =>
            LET units == UnitsOf(PlayedBy(w)) IN
                /\ units = [k \in 1..Len(units) |-> k]
                /\ Len(units) <= UnitCount(w)
                /\ wpc[w] = "done" =>
                    /\ Len(units) = UnitCount(w)
                    /\ LivePlayers = {}
                    /\ ~is_reading /\ ~is_paused /\ ~stop_reading
                    /\ current_process = None

C1_Witness ==
    /\ Undisturbed
    /\ wpc[1] = "done"
    /\ UnitCount(1) = MaxUnits
    /\ UnitsOf(PlayedBy(1)) = [k \in 1..MaxUnits |-> k]

\* C2: when stop_reading is set by handle_stop_button while the single worker
\* has the player of unit k running, the worker never goes on to render or
\* play a unit after k, that player is not running once the worker has ended,
\* and the worker does end, with is_reading False.
StoppedAt(w, k) == Ev("stopAt", k, w) \in events

C2_StopSafe ==
    \A w \in Workers : \A k \in 1..MaxUnits :
        StoppedAt(w, k) =>
            /\ \A j \in 1..Len(PlayedBy(w)) : PlayedBy(w)[j].unit <= k
            /\ wpc[w] \in {"render", "play", "monitor", "tick", "pause_wait", "resume"}
                   => Unit(w) <= k
            /\ wpc[w] = "done" => (PlayingUnit(w) = 0 /\ ~is_reading)

C2_StopEndsSession ==
    /\ []C2_StopSafe
    /\ \A w \in Workers :
         (\E k \in 1..MaxUnits : StoppedAt(w, k)) ~> (wpc[w] = "done" /\ ~is_reading)

C2_Witness ==
    /\ StoppedAt(1, 1)
    /\ wpc[1] = "done"
    /\ UnitCount(1) = MaxUnits
    /\ \E p \in 1..Len(players) : players[p].unit = 1 /\ players[p].status = "terminated"

\* C3: the clause "no unit is skipped and no unit other than k is played
\* twice" -- in a single session with no Stop, no failure and no expiry, in
\* which Pause was only ever pressed while a unit was playing, each player the
\* worker starts is for the unit after the previous one, or for the same unit
\* again if that unit is one during which Pause was pressed.
PausedAt(w, k) == Ev("pausedAt", k, w) \in events

C3_PauseReplaysThatUnit ==
    \A w \in Workers :
        ( /\ Cardinality(Started) = 1
          /\ NoPress(STOP_BUTTON) /\ NoFailure
          /\ ~Happened("budget") /\ ~Happened("kill") /\ ~Happened("pausedIdle") ) =>
            LET u == UnitsOf(StartedBy(w)) IN
                /\ u # <<>> => u[1] = 1
                /\ \A i \in 1..(Len(u) - 1) :
                      \/ u[i + 1] = u[i] + 1
                      \/ u[i + 1] = u[i] /\ PausedAt(w, u[i])

\* C4: a failed create_audio_file or play_audio_file for a unit leaves that
\* unit without any player and the next attempt of the worker is for the unit
\* after it; and a single worker that has ended without Stop and without
\* expiry of the limit has gone through every unit of its text, in order.
Failed(log, i) == log[i].status = "failed"

C4_FailureSkipsOneUnit ==
    \A w \in Workers :
        LET log == PlayedBy(w) IN
            /\ \A i \in 1..Len(log) :
                  Failed(log, i) =>
                      /\ \A j \in 1..Len(log) : j # i => log[j].unit # log[i].unit
                      /\ i < Len(log) => log[i + 1].unit = log[i].unit + 1
            /\ ( /\ wpc[w] = "done"
                 /\ Cardinality(Started) = 1
                 /\ NoPress(STOP_BUTTON) /\ ~Happened("budget") /\ ~Happened("kill") ) =>
                   /\ {log[i].unit : i \in 1..Len(log)} = 1..UnitCount(w)
                   /\ \A i \in 1..(Len(log) - 1) : log[i].unit <= log[i + 1].unit
                   /\ ~is_reading /\ current_process = None

C4_Witness ==
    /\ wpc[1] = "done"
    /\ NoPress(STOP_BUTTON)
    /\ UnitCount(1) = 2
    /\ Len(PlayedBy(1)) = 2
    /\ PlayedBy(1)[1] = [owner |-> 1, unit |-> 1, status |-> "failed"]
    /\ PlayedBy(1)[2] = [owner |-> 1, unit |-> 2, status |-> "exited"]

\* C5: at most one narration player is running at any time.
C5_OneLivePlayer == Cardinality(LivePlayers) <= 1

\* C6: stop_reading, once set for a session, is not cleared while a worker
\* it was set for is still in its loop.
Cancelled(w) == Ev("cancel", w, 0) \in events

C6_CancelNeverLost ==
    [][ (stop_reading /\ ~stop_reading') =>
            \A w \in Workers : Cancelled(w) => ~Narrating(w) ]_vars

\* C7 as claimed: a poll tick of the playback-monitor loop that is taken when
\* the session has reached the 600 s limit ends the playback of the unit.
Elapsed == now - start_time

C7_CheckedAtEveryPollTick ==
    [][ \A w \in Workers :
          (wpc[w] = "tick" /\ wpc'[w] # "tick" /\ Elapsed >= SESSION_LIMIT)
              => wpc'[w] \notin {"monitor", "pause_wait"} ]_vars

\* C7 as amended: the limit is tested at the head of the for loop only, with
\* a strict comparison.  A worker that comes to a unit boundary with units
\* left and more than 600 s elapsed leaves the loop; a poll tick of the
\* monitor loop taken after the limit, with no Stop and no Pause pending,
\* leaves the player running and goes on monitoring it.
C7_CheckedAtUnitBoundary ==
    [][ \A w \in Workers :
          /\ ( /\ wpc[w] = "loop" /\ wpc'[w] # "loop"
               /\ idx[w] < Len(sentences[w]) )
               => (wpc'[w] = "reset" <=> (Elapsed > SESSION_LIMIT \/ stop_reading))
          /\ ( /\ wpc[w] = "tick" /\ wpc'[w] # "tick"
               /\ Elapsed > SESSION_LIMIT /\ ~stop_reading /\ ~is_paused )
               => (wpc'[w] = "monitor" /\ players' = players) ]_vars

C7_Witness ==
    \E w \in Workers :
        /\ Ev("budget", w, 0) \in events
        /\ wpc[w] = "done"
        /\ NoPress(STOP_BUTTON)
        /\ Len(PlayedBy(w)) < Len(sentences[w])
        /\ \E p \in 1..Len(players) : players[p].owner = w /\ players[p].status = "exited"

\* C8 as claimed: a worker started after a kill, on the text of the worker
\* that was playing unit k when the process was killed (units 1..k-1 having
\* played to their end), starts with unit k: the first player it starts, its
\* first render and player start having succeeded, is that of unit k.
KilledAt(w, k) ==
    /\ Ev("kill", w, k) \in events
    /\ k >= 1
    /\ UnitsOf(PlayedBy(w)) = [i \in 1..k |-> i]
    /\ \A i \in 1..(k - 1) : PlayedBy(w)[i].status = "exited"

AfterRestart(w, v, k) ==
    /\ KilledAt(w, k)
    /\ v # w
    /\ wpc[v] \notin {"idle", "killed"}
    /\ wtext[v] = wtext[w]
    /\ PlayedBy(v) # <<>>
    /\ PlayedBy(v)[1].status # "failed"

C8_ResumesAtKilledUnit ==
    \A w, v \in Workers : \A k \in 1..MaxUnits :
        AfterRestart(w, v, k) => PlayedBy(v)[1].unit = k

\* C8 as amended: that worker starts with unit 1 again, whatever k was.
C8_RestartsAtFirstUnit ==
    \A w, v \in Workers : \A k \in 1..MaxUnits :
        AfterRestart(w, v, k) => PlayedBy(v)[1].unit = 1

C8_Witness ==
    \E w, v \in Workers :
        /\ AfterRestart(w, v, 2)
        /\ PlayedBy(v)[1].unit = 1
        /\ PlayedBy(v)[1].status = "running"

\* C9: two accepted presses of the same button are more than DEBOUNCE_TIME
\* apart, and last_button_press holds the time of the last accepted press of
\* each button (0 if none): a rejected call does not change it.
Accepts(pin) == {e \in events : e.tag = "accept" /\ e.a = pin}
RECURSIVE MaxOf(_)
MaxOf(S) == IF S = {} THEN 0
            ELSE LET x == CHOOSE y \in S : TRUE
                     m == MaxOf(S \ {x})
                 IN IF x > m THEN x ELSE m

C9_OneEventPerWindow ==
    \A pin \in Pins :
        /\ \A e1, e2 \in Accepts(pin) : e1.b < e2.b => e2.b - e1.b > DEBOUNCE_TIME
        /\ last_button_press[pin] = MaxOf({e.b : e \in Accepts(pin)})

C9_Witness ==
    /\ \E e1, e2 \in Accepts(CAPTURE_BUTTON) : e2.b - e1.b = DEBOUNCE_TIME + PRESS_GAP
    /\ Cardinality(Accepts(CAPTURE_BUTTON)) = 2

\* C10 as claimed: the handler entered in a tick is that of Stop if Stop is
\* asserted and past its debounce window, else that of Pause if Pause is,
\* else that of Capture.
C10_StopFirst ==
    lastPoll.event # NoEvent =>
        lastPoll.event = IF STOP_BUTTON \in lastPoll.ready THEN STOP_BUTTON
                         ELSE IF PAUSE_BUTTON \in lastPoll.ready THEN PAUSE_BUTTON
                         ELSE CAPTURE_BUTTON

\* C10 as amended: the order is that of the if / elif chain, Capture before
\* Pause before Stop.
C10_CaptureFirst ==
    lastPoll.event # NoEvent =>
        lastPoll.event = IF CAPTURE_BUTTON \in lastPoll.ready THEN CAPTURE_BUTTON
                         ELSE IF PAUSE_BUTTON \in lastPoll.ready THEN PAUSE_BUTTON
                         ELSE STOP_BUTTON

C10_Witness ==
    /\ lastPoll.ready = Pins
    /\ lastPoll.event = CAPTURE_BUTTON
    /\ mpc = "capture"

\* C11: the units the worker obtains from its text T are in the reading order
\* of T (their letters, read unit after unit, are the letters of T), each unit
\* is a part of T between two full stops, trimmed, followed by a full stop,
\* and none is empty after trimming: each holds a character other than the
\* blank before its full stop.
RECURSIVE Flatten(_)
Flatten(ss) == IF ss = <<>> THEN <<>> ELSE Head(ss) \o Flatten(Tail(ss))
Letters(s) == SelectSeq(s, LAMBDA c : c \notin {" ", "."})
Front(s) == SubSeq(s, 1, Len(s) - 1)
Segmented(w) == wpc[w] \notin {"idle", "start", "start2", "start3"}

C11_OrderedNonEmptyUnits ==
    \A w \in Workers :
        Segmented(w) =>
            LET u == sentences[w] IN
                /\ Letters(Flatten(u)) = Letters(wtext[w])
                /\ \A i \in 1..Len(u) :
                      /\ Len(u[i]) >= 2
                      /\ u[i][Len(u[i])] = "."
                      /\ \A j \in 1..(Len(u[i]) - 1) : u[i][j] # "."
                      /\ u[i][1] # " " /\ u[i][Len(u[i]) - 1] # " "
                      /\ Strip(Front(u[i])) # <<>>

C11_Witness ==
    /\ Segmented(1)
    /\ wtext[1] = <<"a", ".", ".", "b">>
    /\ sentences[1] = << <<"a", ".">>, <<"b", ".">> >>

\* C12: a worker does not start the player of unit k after Stop was set while
\* it was rendering unit k or about to start its player (stop_reading was
\* False when it passed the head of the loop, so a flag that is set when the
\* player starts was set in between), and does not start its first player
\* while is_paused is True (a worker that has had no player yet had no live
\* player when that pause was registered).
StartsPlayer(w) ==
    /\ Len(players') = Len(players) + 1
    /\ players'[Len(players')].owner = w
    /\ players'[Len(players')].status = "running"

C12_SignalInGapHonored ==
    [][ \A w \in Workers :
          StartsPlayer(w) =>
              /\ wpc[w] = "play" => ~stop_reading
              /\ PlayedBy(w) = <<>> => ~is_paused ]_vars

\* C13: whenever is_paused is True in an active session (is_reading True),
\* no narration player is running: the current player has been terminated.
C13_PausedImpliesPlayerStopped ==
    (is_paused /\ is_reading) => (~Running(current_process) /\ LivePlayers = {})

\* C14: is_paused is True only while is_reading is True.  The state inside
\* reset_reading_state between its first two assignments is left aside, so
\* that a violation is a pause that outlives the session.
InsideReset == \E w \in Workers : wpc[w] = "reset2"

C14_PausedOnlyWhileReading ==
    (is_paused /\ ~InsideReset) => is_reading

\* C15 as claimed: no reader thread is started for a capture during which
\* Stop was pressed (while the image was being captured or its text
\* extracted).
StartsWorker == \E w \in Workers : wpc[w] = "idle" /\ wpc'[w] = "start"
Busy == mpc \in {"capture", "extract", "rtt_check", "rtt_start"}

C15_StopAbortsAttempt ==
    [][ StartsWorker => Ev("stopWhileBusy", presses, 0) \notin events ]_vars

\* C15 as amended: while the main thread is busy with a capture the Stop
\* handler is never entered and stop_reading is not set by the main thread;
\* an extraction that yields a text is followed by the start of a reader
\* thread, a Stop press in between or not.
C15_AttemptRunsToItsEnd ==
    [][ /\ Busy => (mpc' \notin {"stop", "pause"} /\ (stop_reading' => stop_reading))
        /\ (mpc \in {"rtt_check", "rtt_start"} /\ mpc' = "poll") => StartsWorker ]_vars

C15_Witness ==
    /\ Ev("stopWhileBusy", 1, 0) \in events
    /\ Ev("extractOk", 1, 1) \in events
    /\ wpc[1] = "loop"
    /\ ~stop_reading

\* C16 as claimed: an extraction call that fails is followed by another call
\* for the same capture unless it was the third: the attempt is given up only
\* after three failed calls.
FailsNow == \E e \in events' \ events : e.tag = "extractFailed"

C16_RetriedUpToThree ==
    [][ (FailsNow /\ mpc' = "poll") => Calls(presses)' = 3 ]_vars

\* C16 as amended: the extraction service is called once for a capture; a
\* failed call ends the attempt at once, main is back at its poll and no
\* reader thread has been started.
C16_CalledOnce ==
    [][ /\ \A e \in events' : e.tag \in {"extractFailed", "extractOk"} => e.b = 1
        /\ FailsNow => (mpc' = "poll" /\ wpc' = wpc /\ text' = text) ]_vars

C16_Witness ==
    /\ Ev("extractFailed", 1, 1) \in events
    /\ mpc = "poll"
    /\ Started = {}
    /\ presses = 1

\* C17: a failed capture or a failed extraction ends the attempt: main is
\* back at its poll, no reader thread has been started and the flags and the
\* player of AppState are what they were; with no session started before,
\* is_reading is False.
FailureNow == \E e \in events' \ events : e.tag \in {"captureFailed", "extractFailed"}

EntersSession(w) == wpc[w] = "start3" /\ wpc'[w] = "loop"

C18_ClockSetOnce ==
    [][ /\ start_time' # start_time => (\E w \in Workers : EntersSession(w)) /\ start_time' = now
        /\ \A w \in Workers :
              (wpc[w] \in {"tick", "pause_wait", "resume"} \/ mpc \in {"pause", "pause_toggle"})
                  /\ ~(\E v \in Workers : EntersSession(v))
                  => start_time' = start_time ]_vars

C18_Witness ==
    /\ PausedAt(1, 1)
    /\ UnitsOf(StartedBy(1)) = <<1, 1>>
    /\ UnitCount(1) = 2
    /\ Ev("budget", 1, 0) \in events
    /\ start_time = T0
    /\ now = T0 + SESSION_LIMIT + POLL_INTERVAL
    /\ wpc[1] = "done"

\* C19: the main thread keeps coming back to its poll step whatever the
\* reader threads do: the only place where it waits for one is the join of
\* read_text_threaded, and only while that thread is alive and the 2 s of the
\* join have not passed, the deadline being at most JOIN_TIMEOUT away.
WaitsInJoin ==
    /\ mpc = "rtt_join"
    /\ Alive(reading_thread)
    /\ now < join_deadline

C19_PollingNeverBlocked ==
    /\ [](mpc = "rtt_join" => join_deadline <= now + JOIN_TIMEOUT)
    /\ []<>(mpc = "poll" \/ WaitsInJoin)
    /\ \A w \in Workers :
          [](mpc \in {"pause", "stop"} /\ wpc[w] \in {"render", "monitor", "tick", "pause_wait"}
               => <>(mpc = "poll"))

C19_Witness ==
    /\ wpc[1] = "pause_wait"
    /\ is_paused
    /\ mpc = "stop_set"
    /\ last_button_press[PAUSE_BUTTON] # 0

\* C20: is_reading is True whenever a worker is rendering, playing or paused
\* on a unit.
OnUnit(w) == wpc[w] \in {"render", "play", "monitor", "tick", "pause_wait", "resume"}

C20_ReadingWhileNarrating ==
    \A w \in Workers : OnUnit(w) => is_reading

====
